---- MODULE Spec2Model ----
(***************************************************************************)
(* Model of service_vm/kernel/extract_microdroid_kernel_hashes.py.         *)
(*                                                                         *)
(* Text is modelled as a sequence of one-character strings, so that        *)
(* str.split, str.replace, slicing and ", ".join act on characters as the  *)
(* Python code does.  The fixed literals that main prints are kept as      *)
(* single chunks of a printed line.                                        *)
(***************************************************************************)
EXTENDS Integers, Sequences, FiniteSets, TLC

VARIABLES
    args,        \* sys.argv[1:], the argument list handed to main (line 73)
    pc,          \* position of main (lines 23-48)
    err,         \* the exception that ended main, "none" while there is none
    proc,        \* the avbtool child process, how it started and ended (53-56)
    spawns,      \* number of subprocess.Popen calls made (53)
    collected,   \* the dict returned by collect_hashes (62)
    hashes,      \* main's local dict `hashes`, changed in place by the fallback (27-41)
    out,         \* standard output: one entry per print call (29-48)
    fmt_arg,     \* the hex_string of a direct call of format_hex_string (64)
    fmt_result   \* what that call returned or raised (66-70)

vars == <<args, pc, err, proc, spawns, collected, hashes, out, fmt_arg, fmt_result>>

----------------------------------------------------------------------------
(* Bounds of the model *)

\* Largest number of lines the digest tool prints.
MaxLines == 4

\* Largest number of bytes of a digest handed directly to format_hex_string.
MaxBytes == 33

----------------------------------------------------------------------------
(* Program constants *)

PARTITION_NAME_BOOT == <<"b", "o", "o", "t">>
PARTITION_NAME_INITRD_NORMAL ==
    <<"i", "n", "i", "t", "r", "d", "_", "n", "o", "r", "m", "a", "l">>
PARTITION_NAME_INITRD_DEBUG ==
    <<"i", "n", "i", "t", "r", "d", "_", "d", "e", "b", "u", "g">>

\* The set literal main compares hashes.keys() with.
ExpectedPartitions ==
    {PARTITION_NAME_BOOT, PARTITION_NAME_INITRD_NORMAL, PARTITION_NAME_INITRD_DEBUG}

HeaderLine1 == "//! This file is generated by extract_microdroid_kernel_hashes.py.\n"
HeaderLine2 == "//! It contains the hashes of the kernel and initrds.\n\n"
HeaderLine3 == "#![no_std]\n#![allow(missing_docs)]\n\n"
EmptyKernelComment == "/// The kernel is empty, no hashes are available.\n"
KernelHashPrefix == "pub const KERNEL_HASH: &[u8] = &["
InitrdNormalHashPrefix == "pub const INITRD_NORMAL_HASH: &[u8] = &["
InitrdDebugHashPrefix == "pub const INITRD_DEBUG_HASH: &[u8] = &["
DeclEnd == "];\n"
DeclEndLast == "];"

----------------------------------------------------------------------------
(* Python string and dict operations *)

\* A replace that is never applied.
Replace_none(s, old) == s

\* s.replace(old, "") for a one-character old.
Replace(s, old) == SelectSeq(s, LAMBDA c : c # old)

\* s.split(sep) for a one-character sep: the text between consecutive
\* separators, one more segment than there are separators.
Split(s, sep) ==
    LET at == SelectSeq([i \in 1..Len(s) |-> i], LAMBDA i : s[i] = sep)
        n == Len(at)
    IN  [k \in 1..(n + 1) |->
            SubSeq(s, IF k = 1 THEN 1 ELSE at[k - 1] + 1,
                      IF k = n + 1 THEN Len(s) ELSE at[k] - 1)]

\* sep.join(parts)
RECURSIVE Join(_, _)
Join(parts, sep) ==
    IF parts = <<>> THEN <<>>
    ELSE IF Len(parts) = 1 THEN parts[1]
    ELSE parts[1] \o sep \o Join(Tail(parts), sep)

\* {}
EmptyDict == [k \in {} |-> <<>>]

\* d[k] = v
SetItem(d, k, v) == [x \in (DOMAIN d) \cup {k} |-> IF x = k THEN v ELSE d[x]]

----------------------------------------------------------------------------
(* Outcome of a call: the value returned, or the exception raised *)

Return(v) == [raised |-> "none", value |-> v]
Raise(e) == [raised |-> e, value |-> <<>>]
NotCalled == [raised |-> "pending", value |-> <<>>]

----------------------------------------------------------------------------
(* format_hex_string *)

\* A slice of one character, hex_string[i:i+1].
Slice2_one(hex_string, i) == SubSeq(hex_string, i + 1, i + 1)

\* hex_string[i:i+2], i counted from 0: at most two characters, fewer at the end.
Slice2(hex_string, i) ==
    SubSeq(hex_string, i + 1, IF i + 2 <= Len(hex_string) THEN i + 2 ELSE Len(hex_string))

\* A line break every 16 characters (8 bytes) instead of every 32.
ByteToken_break16(hex_string, i) ==
    IF i % 16 = 0
    THEN <<"\n", "0", "x">> \o Slice2(hex_string, i)
    ELSE <<"0", "x">> \o Slice2(hex_string, i)

\* One element of the list comprehension, for the character offset i.
ByteToken(hex_string, i) ==
    IF i % 32 = 0
    THEN <<"\n", "0", "x">> \o Slice2(hex_string, i)
    ELSE <<"0", "x">> \o Slice2(hex_string, i)

\* [... for i in range(0, len(hex_string), 2)]
ByteTokens(hex_string) ==
    [k \in 1..((Len(hex_string) + 1) \div 2) |-> ByteToken(hex_string, 2 * (k - 1))]

\* The formatter without its assertion.
format_hex_string_noassert(h) == Return(Join(ByteTokens(h), <<",", " ">>))

format_hex_string(h) ==
    IF Len(h) % 2 # 0
    THEN Raise("AssertionError")
    ELSE Return(Join(ByteTokens(h), <<",", " ">>))

----------------------------------------------------------------------------
(* collect_hashes *)

\* The body of the for loop, applied to the lines in order.
RECURSIVE ParseLines(_, _)
ParseLines(lines, d) ==
    IF lines = <<>> THEN d
    ELSE LET line == Split(Replace(Head(lines), " "), ":")
         IN  ParseLines(Tail(lines),
                        IF Len(line) = 2 THEN SetItem(d, line[1], line[2]) ELSE d)

\* A collector that swallows the launch failure and returns an empty dict.
collect_hashes_swallow(p) ==
    IF p.state = "notfound"
    THEN Return(EmptyDict)
    ELSE Return(ParseLines(Split(p.stdout, "\n"), EmptyDict))

\* p is how the child process went: Popen raises when the tool cannot be
\* started; otherwise communicate() returns what the tool printed, and the
\* exit status of the tool is never read.
collect_hashes(p) ==
    IF p.state = "notfound"
    THEN Raise("FileNotFoundError")
    ELSE Return(ParseLines(Split(p.stdout, "\n"), EmptyDict))

----------------------------------------------------------------------------
(* What the environment can supply *)

\* sys.argv[1:]: none, one, two or three arguments.
ArgLists == { <<>>, <<"avbtool">>, <<"avbtool", "kernel.img">>,
              <<"avbtool", "kernel.img", "extra">> }

PartitionNameVendor == <<"v", "e", "n", "d", "o", "r">>

\* Lines the digest tool may print (stderr is merged into stdout).
ToolLines ==
    { PARTITION_NAME_BOOT \o <<":", " ", "a", "a", "1", "1">>,
      PARTITION_NAME_BOOT \o <<":", " ", "a", "1", "b">>,
      PARTITION_NAME_INITRD_NORMAL \o <<":", "b", "b", "2", "2">>,
      PARTITION_NAME_INITRD_NORMAL \o <<":", " ", "b", "2", "c">>,
      <<" ">> \o PARTITION_NAME_INITRD_DEBUG \o <<" ", ":", " ", "c", "c", " ", "3", "3">>,
      PARTITION_NAME_INITRD_DEBUG \o <<":", " ", "c", "3", "c">>,
      PartitionNameVendor \o <<":", "\t", "d", "d", "4", "4", "\r">>,
      <<"a", ":", "b", ":", "c">> }

\* Every line ends with a newline.
RECURSIVE Unlines(_)
Unlines(ls) == IF ls = <<>> THEN <<>> ELSE Head(ls) \o <<"\n">> \o Unlines(Tail(ls))

ReturnCodes == {0, 1}

HexDigits == <<"0", "1", "2", "3", "4", "5", "6", "7",
               "8", "9", "a", "b", "c", "d", "e", "f">>

HexPattern(len, stride, offset) ==
    [i \in 1..len |-> HexDigits[((i * stride + offset) % 16) + 1]]

\* Digests handed directly to format_hex_string: every length up to
\* MaxBytes bytes and one character more, even and odd.
HexInputs ==
    { HexPattern(len, stride, offset) :
        len \in 0..(2 * MaxBytes + 1), stride \in {1, 7}, offset \in {0, 5} }

----------------------------------------------------------------------------
(* main *)

Fail(e) ==
    /\ pc' = "failed"
    /\ err' = e

Init ==
    /\ args \in ArgLists
    /\ pc = "start"
    /\ err = "none"
    /\ proc = [state |-> "none", returncode |-> 0, stdout |-> <<>>]
    /\ spawns = 0
    /\ collected = EmptyDict
    /\ hashes = EmptyDict
    /\ out = <<>>
    /\ fmt_arg = <<>>
    /\ fmt_result = NotCalled

\* Only args[0] is read.
ReadArgs_first_only ==
    /\ pc = "start"
    /\ IF Len(args) < 1
       THEN Fail("IndexError")
       ELSE pc' = "collect" /\ err' = err
    /\ UNCHANGED <<args, proc, spawns, collected, hashes, out, fmt_arg, fmt_result>>

\* avbtool = args[0]; kernel_image_path = args[1]
ReadArgs ==
    /\ pc = "start"
    /\ IF Len(args) < 2
       THEN Fail("IndexError")
       ELSE pc' = "collect" /\ err' = err
    /\ UNCHANGED <<args, proc, spawns, collected, hashes, out, fmt_arg, fmt_result>>

\* How the child process can go: the tool cannot be started, or it runs,
\* prints up to MaxLines lines and exits with some status.
ProcOutcome(p) ==
    \/ p = [state |-> "notfound", returncode |-> 0, stdout |-> <<>>]
    \/ \E n \in 0..MaxLines : \E ls \in [1..n -> ToolLines] : \E rc \in ReturnCodes :
          p = [state |-> "exited", returncode |-> rc, stdout |-> Unlines(ls)]

\* hashes = collect_hashes(avbtool, kernel_image_path)
CollectHashes ==
    /\ pc = "collect"
    /\ spawns' = spawns + 1
    /\ ProcOutcome(proc')
    /\ LET r == collect_hashes(proc')
       IN  IF r.raised # "none"
           THEN Fail(r.raised) /\ UNCHANGED <<collected, hashes>>
           ELSE /\ collected' = r.value
                /\ hashes' = r.value
                /\ pc' = "header"
                /\ err' = err
    /\ UNCHANGED <<args, out, fmt_arg, fmt_result>>

\* The three print calls of the header.
PrintHeader ==
    /\ pc = "header"
    /\ out' = out \o << <<HeaderLine1>>, <<HeaderLine2>>, <<HeaderLine3>> >>
    /\ pc' = "fallback"
    /\ UNCHANGED <<args, err, proc, spawns, collected, hashes, fmt_arg, fmt_result>>

\* Only the expected names that are missing are given an empty digest.
EmptyDigests_missing_only(d) ==
    [k \in (DOMAIN d) \cup ExpectedPartitions |-> IF k \in DOMAIN d THEN d[k] ELSE <<>>]

\* A fresh dict holding only the three expected names.
EmptyDigests_fresh(d) == [k \in ExpectedPartitions |-> <<>>]

\* hashes[PARTITION_NAME_BOOT] = ""; hashes[PARTITION_NAME_INITRD_NORMAL] = "";
\* hashes[PARTITION_NAME_INITRD_DEBUG] = "": three item assignments on the same dict.
EmptyDigests(d) ==
    SetItem(SetItem(SetItem(d, PARTITION_NAME_BOOT, <<>>),
                    PARTITION_NAME_INITRD_NORMAL, <<>>),
            PARTITION_NAME_INITRD_DEBUG, <<>>)

\* The comment is printed whatever the key set is.
FallbackPolicy_comment_always ==
    /\ pc = "fallback"
    /\ out' = Append(out, <<EmptyKernelComment>>)
    /\ IF DOMAIN hashes # ExpectedPartitions
       THEN hashes' = EmptyDigests(hashes)
       ELSE hashes' = hashes
    /\ pc' = "emit_kernel"
    /\ UNCHANGED <<args, err, proc, spawns, collected, fmt_arg, fmt_result>>

\* if hashes.keys() != {...}: print the comment and empty the three digests.
FallbackPolicy ==
    /\ pc = "fallback"
    /\ IF DOMAIN hashes # ExpectedPartitions
       THEN /\ out' = Append(out, <<EmptyKernelComment>>)
            /\ hashes' = EmptyDigests(hashes)
       ELSE UNCHANGED <<out, hashes>>
    /\ pc' = "emit_kernel"
    /\ UNCHANGED <<args, err, proc, spawns, collected, fmt_arg, fmt_result>>

\* print(prefix f"{format_hex_string(hashes[name])}" end): the argument is
\* evaluated first, so nothing of the line is written when the formatter raises.
Emit(at, name, prefix, end, next) ==
    /\ pc = at
    /\ LET r == format_hex_string(hashes[name])
       IN  IF r.raised # "none"
           THEN Fail(r.raised) /\ out' = out
           ELSE /\ out' = Append(out, <<prefix>> \o r.value \o <<end>>)
                /\ pc' = next
                /\ err' = err
    /\ UNCHANGED <<args, proc, spawns, collected, hashes, fmt_arg, fmt_result>>

EmitKernelHash ==
    Emit("emit_kernel", PARTITION_NAME_BOOT, KernelHashPrefix, DeclEnd,
         "emit_initrd_normal")

\* The second declaration printed under the name of the first.
EmitInitrdNormalHash_copied ==
    Emit("emit_initrd_normal", PARTITION_NAME_INITRD_NORMAL, KernelHashPrefix,
         DeclEnd, "emit_initrd_debug")

EmitInitrdNormalHash ==
    Emit("emit_initrd_normal", PARTITION_NAME_INITRD_NORMAL, InitrdNormalHashPrefix,
         DeclEnd, "emit_initrd_debug")

EmitInitrdDebugHash ==
    Emit("emit_initrd_debug", PARTITION_NAME_INITRD_DEBUG, InitrdDebugHashPrefix,
         DeclEndLast, "done")

Next ==
    \/ ReadArgs
    \/ CollectHashes
    \/ PrintHeader
    \/ FallbackPolicy
    \/ EmitKernelHash
    \/ EmitInitrdNormalHash
    \/ EmitInitrdDebugHash

Spec == Init /\ [][Next]_vars

----------------------------------------------------------------------------
(* format_hex_string called on its own *)

InitFormat ==
    /\ args = <<>>
    /\ pc = "call_format"
    /\ err = "none"
    /\ proc = [state |-> "none", returncode |-> 0, stdout |-> <<>>]
    /\ spawns = 0
    /\ collected = EmptyDict
    /\ hashes = EmptyDict
    /\ out = <<>>
    /\ fmt_arg \in HexInputs
    /\ fmt_result = NotCalled

CallFormat ==
    /\ pc = "call_format"
    /\ fmt_result' = format_hex_string(fmt_arg)
    /\ pc' = "format_done"
    /\ UNCHANGED <<args, err, proc, spawns, collected, hashes, out, fmt_arg>>

NextFormat == CallFormat

SpecFormat == InitFormat /\ [][NextFormat]_vars

----------------------------------------------------------------------------
(* Vocabulary of the properties *)

\* main has ended, normally or with an exception.
Terminal == pc \in {"done", "failed"}

\* The fallback step of main has been executed.
PastFallback ==
    \/ pc \in {"emit_kernel", "emit_initrd_normal", "emit_initrd_debug", "done"}
    \/ pc = "failed" /\ err = "AssertionError"

\* The key set of the collected dict is the expected one.
KeysMatch == DOMAIN collected = ExpectedPartitions

Header == << <<HeaderLine1>>, <<HeaderLine2>>, <<HeaderLine3>> >>

DeclPrefixes == {KernelHashPrefix, InitrdNormalHashPrefix, InitrdDebugHashPrefix}

\* The constant declarations written so far, in the order written.
Decls == SelectSeq(out, LAMBDA e : e[1] \in DeclPrefixes)

DeclNames == [i \in 1..Len(Decls) |-> Decls[i][1]]

ThreeNamesInOrder == <<KernelHashPrefix, InitrdNormalHashPrefix, InitrdDebugHashPrefix>>

ThreeEmptyDecls ==
    << <<KernelHashPrefix, DeclEnd>>, <<InitrdNormalHashPrefix, DeclEnd>>,
       <<InitrdDebugHashPrefix, DeclEndLast>> >>

PartitionOrder ==
    <<PARTITION_NAME_BOOT, PARTITION_NAME_INITRD_NORMAL, PARTITION_NAME_INITRD_DEBUG>>

\* Positions, in emission order, of the collected digests of odd length.
OddPartitions == {j \in 1..3 : Len(collected[PartitionOrder[j]]) % 2 = 1}

\* Entries of standard output that are the "no hashes are available" comment.
CommentAt == {i \in DOMAIN out : out[i] = <<EmptyKernelComment>>}

----------------------------------------------------------------------------
(* Fallback Policy *)

\* C1: once the fallback step has run, either the collected key set is exactly
\* the expected one and the three digests in use are the collected ones, or it
\* is any other set and all three expected keys hold the empty string, also
\* those that had been collected with a real digest.
C1_FallbackIsBinary ==
    PastFallback =>
        IF KeysMatch
        THEN \A k \in ExpectedPartitions : hashes[k] = collected[k]
        ELSE \A k \in ExpectedPartitions : hashes[k] = <<>>

\* C1 witness: two of the three expected names were collected, one with a
\* real digest, and that digest has been emptied.
C1_Witness ==
    /\ PastFallback
    /\ Cardinality(DOMAIN collected) = 2
    /\ DOMAIN collected \subseteq ExpectedPartitions
    /\ \E k \in DOMAIN collected : collected[k] # <<>> /\ hashes[k] = <<>>

\* C2 as stated: after the fallback step the key set of the dict is exactly
\* the three expected names, any unexpected key having been discarded.
C2_KeySetExactlyExpected ==
    PastFallback => DOMAIN hashes = ExpectedPartitions

\* C2 amended: after the fallback step the dict holds the three expected names
\* and, besides them, every unexpected key that was collected, still with its
\* collected digest: the key set is the collected one united with the expected.
C2_KeySetContainsExpected ==
    PastFallback =>
        /\ DOMAIN hashes = (DOMAIN collected) \cup ExpectedPartitions
        /\ \A k \in (DOMAIN collected) \ ExpectedPartitions : hashes[k] = collected[k]

\* C2 witness: a proper superset of the expected names was collected and the
\* fourth name is still a key after the fallback step.
C2_Witness ==
    /\ PastFallback
    /\ ExpectedPartitions \subseteq DOMAIN collected
    /\ PartitionNameVendor \in DOMAIN collected
    /\ PartitionNameVendor \in DOMAIN hashes
    /\ \A k \in ExpectedPartitions : hashes[k] = <<>>

----------------------------------------------------------------------------
(* Emitter *)

\* C3 as stated: for every dict the collector returns, the output of main, once
\* main has ended, defines the three constants, each once, in the fixed order.
C3_AlwaysThreeConstants ==
    (Terminal /\ proc.state = "exited") => DeclNames = ThreeNamesInOrder

\* C3 amended: main runs to completion for every collected dict whose key set
\* differs from the expected one and for every dict with the expected key set
\* whose three digests have even length; whenever it runs to completion the
\* output defines the three constants, each once, in the order KERNEL_HASH,
\* INITRD_NORMAL_HASH, INITRD_DEBUG_HASH, and after the fallback all three are
\* zero-length arrays.
C3_ThreeConstantsOnCompletion ==
    /\ (Terminal /\ proc.state = "exited" /\ (~KeysMatch \/ OddPartitions = {}))
          => pc = "done"
    /\ pc = "done" =>
          /\ DeclNames = ThreeNamesInOrder
          /\ ~KeysMatch => Decls = ThreeEmptyDecls

\* C3 witness: main completed on the fallback path.
C3_Witness ==
    /\ pc = "done"
    /\ ~KeysMatch
    /\ Decls = ThreeEmptyDecls

\* C10: the "no hashes are available" comment is in the output exactly when the
\* fallback step has run on a key set other than the expected one; it is then
\* the fourth print, right after the three header prints, and everything
\* printed after it is a constant declaration.
C10_CommentIffFallback ==
    /\ CommentAt = (IF PastFallback /\ ~KeysMatch THEN {4} ELSE {})
    /\ CommentAt # {} =>
          /\ SubSeq(out, 1, 3) = Header
          /\ \A i \in 5..Len(out) : out[i][1] \in DeclPrefixes
    /\ (PastFallback /\ KeysMatch) => \A i \in 4..Len(out) : out[i][1] \in DeclPrefixes

\* C10 witness: a completed run whose output carries the comment before the
\* three declarations.
C10_Witness ==
    /\ pc = "done"
    /\ CommentAt = {4}
    /\ Len(out) = 7

----------------------------------------------------------------------------
(* Errors *)

\* C4 as stated: main never reaches its normal exit after the tool could not
\* be launched or exited with a non-zero status.
C4_NoNormalExitAfterToolError ==
    pc = "done" => (proc.state = "exited" /\ proc.returncode = 0)

\* C4 amended: when the tool cannot be launched, main has failed with the
\* launch error after a single launch attempt and has written nothing; when
\* the tool ran, whatever its exit status, there was a single launch, no
\* subprocess error is raised, and the only failure main can still end with
\* is the formatter's assertion.
C4_LaunchFailureFatal ==
    /\ proc.state = "notfound" =>
          /\ pc = "failed"
          /\ err = "FileNotFoundError"
          /\ out = <<>>
          /\ spawns = 1
    /\ proc.state = "exited" =>
          /\ spawns = 1
          /\ err \in {"none", "AssertionError"}
    /\ err = "FileNotFoundError" => proc.state = "notfound"

\* C4 witness: the tool could not be launched and main has failed.
C4_Witness ==
    /\ proc.state = "notfound"
    /\ pc = "failed"
    /\ err = "FileNotFoundError"

\* C5 as stated: when the formatter's assertion fails, nothing has been
\* written to standard output.
C5_AssertionBeforeAnyOutput ==
    err = "AssertionError" => out = <<>>

\* C5 amended: main ends with the assertion error exactly when the collected
\* key set is the expected one and one of the three digests has odd length; at
\* that moment the three header prints have been written, followed by the
\* declarations of the partitions that come before the first odd one, and
\* neither the comment nor the declaration of the odd partition or of a later
\* one has been written.
C5_AssertionAfterHeader ==
    /\ err = "AssertionError" =>
          /\ pc = "failed"
          /\ KeysMatch
          /\ OddPartitions # {}
          /\ LET first == CHOOSE j \in OddPartitions : \A i \in OddPartitions : j <= i
             IN  /\ Len(out) = 3 + (first - 1)
                 /\ SubSeq(out, 1, 3) = Header
                 /\ DeclNames = SubSeq(ThreeNamesInOrder, 1, first - 1)
    /\ (Terminal /\ proc.state = "exited" /\ KeysMatch /\ OddPartitions # {})
          => err = "AssertionError"

\* C5 witness: the third digest is the first odd one, and main failed after the
\* header and two declarations.
C5_Witness ==
    /\ err = "AssertionError"
    /\ OddPartitions = {3}
    /\ Len(out) = 5

\* C6 as stated: with an argument count other than two, main writes nothing
\* and never reaches its normal exit.
C6_ArgCountNotTwoFatal ==
    Len(args) # 2 => (out = <<>> /\ pc # "done")

\* C6 amended: with fewer than two arguments main fails with the index error
\* before launching the tool and before writing anything; with two or more
\* arguments it never raises the index error (arguments after the second are
\* not read).
C6_TooFewArgsFatal ==
    /\ (Len(args) < 2 /\ pc # "start") =>
          /\ pc = "failed"
          /\ err = "IndexError"
          /\ out = <<>>
          /\ spawns = 0
    /\ Len(args) >= 2 => err # "IndexError"

\* C6 witness: one argument only, and main has failed with the index error.
C6_Witness ==
    /\ Len(args) = 1
    /\ pc = "failed"
    /\ err = "IndexError"

----------------------------------------------------------------------------
(* Digest Collector *)

\* The lines of the captured tool output.
OutputLines == Split(proc.stdout, "\n")

\* Whether l has exactly one ':', that is, splits into two segments.
OneColon(l) == Cardinality({j \in 1..Len(l) : l[j] = ":"}) = 1

ColonAt(l) == CHOOSE j \in 1..Len(l) : l[j] = ":"

\* The text of l before and after its colon, without the characters of ws.
NameOf(l, ws) == SelectSeq(SubSeq(l, 1, ColonAt(l) - 1), LAMBDA c : c \notin ws)
DigestOf(l, ws) == SelectSeq(SubSeq(l, ColonAt(l) + 1, Len(l)), LAMBDA c : c \notin ws)

\* The collected dict has a key for each line with one colon and for nothing
\* else, with the digest of the last such line of that name, names and digests
\* being stripped of the characters of ws.
CollectedIs(ws) ==
    LET lines == OutputLines
        sig == {i \in 1..Len(lines) : OneColon(lines[i])}
        name == [i \in sig |-> NameOf(lines[i], ws)]
        digest == [i \in sig |-> DigestOf(lines[i], ws)]
    IN  /\ DOMAIN collected = {name[i] : i \in sig}
        /\ \A i \in sig :
              (\A j \in sig : name[j] = name[i] => j <= i)
              => collected[name[i]] = digest[i]

\* C9 as stated: when collect_hashes has returned, the entries of the dict are
\* those of the lines with two segments, the name and the digest having lost
\* all whitespace (spaces, tabs, carriage returns).
C9_AllWhitespaceRemoved ==
    pc = "header" => CollectedIs({" ", "\t", "\r"})

\* C9 amended: when collect_hashes has returned, the entries of the dict are
\* those of the lines that split on ':' into exactly two segments, the name
\* and the digest having lost their space characters only (tabs and carriage
\* returns are kept); lines of one segment or of three or more give no entry.
C9_OnlySpacesRemoved ==
    pc = "header" => CollectedIs({" "})

\* C9 witness: the output had a line of three segments and a line with spaces
\* around its name; the dict has the name without its spaces and not the first
\* segment of the three-segment line.
C9_Witness ==
    /\ pc = "header"
    /\ \E i \in 1..Len(OutputLines) : OutputLines[i] = <<"a", ":", "b", ":", "c">>
    /\ \E i \in 1..Len(OutputLines) : OneColon(OutputLines[i]) /\ OutputLines[i][1] = " "
    /\ PARTITION_NAME_INITRD_DEBUG \in DOMAIN collected
    /\ <<"a">> \notin DOMAIN collected

----------------------------------------------------------------------------
(* Hex Formatter *)

\* The formatter returned for an input of even length.
FormattedEven ==
    /\ pc = "format_done"
    /\ Len(fmt_arg) % 2 = 0

\* The pieces of text between the commas of the result.
Pieces == Split(fmt_result.value, ",")

\* The k-th byte token: the k-th piece without the space that follows the comma
\* and without the line break put before the token.
TokenOf(k) ==
    LET a == IF k > 1 /\ Pieces[k] # <<>> /\ Pieces[k][1] = " "
             THEN Tail(Pieces[k]) ELSE Pieces[k]
    IN  IF a # <<>> /\ a[1] = "\n" THEN Tail(a) ELSE a

\* C7: for an input of even length the formatter returns; an empty input gives
\* the empty string; otherwise the result is len/2 tokens separated by ", ",
\* the k-th being "0x" followed by the k-th pair of characters of the input.
C7_TokensArePairsInOrder ==
    FormattedEven =>
        /\ fmt_result.raised = "none"
        /\ fmt_arg = <<>> => fmt_result.value = <<>>
        /\ fmt_arg # <<>> =>
              /\ Len(Pieces) = Len(fmt_arg) \div 2
              /\ \A k \in 2..Len(Pieces) : Pieces[k] # <<>> /\ Pieces[k][1] = " "
              /\ \A k \in 1..Len(Pieces) :
                    TokenOf(k) = <<"0", "x", fmt_arg[2 * k - 1], fmt_arg[2 * k]>>

\* C7 witness: a digest of 17 bytes has been formatted.
C7_Witness ==
    /\ FormattedEven
    /\ Len(fmt_arg) = 34
    /\ Len(Pieces) = 17

\* Positions of the line breaks in the result, and the number of the byte
\* whose token follows position p (the commas before p).
LineBreaks == {p \in 1..Len(fmt_result.value) : fmt_result.value[p] = "\n"}
ByteAt(p) == Cardinality({q \in 1..(p - 1) : fmt_result.value[q] = ","})

\* C8: for an input of even length, every line break of the result stands
\* immediately before the "0x" of a byte whose 0-based number is a multiple of
\* 16, at the start of the result or right after ", "; and every byte whose
\* number is a multiple of 16 has exactly one line break before its token.
C8_LineBreakEvery16Bytes ==
    FormattedEven =>
        LET r == fmt_result.value
        IN  /\ \A p \in LineBreaks :
                  /\ ByteAt(p) % 16 = 0
                  /\ p + 2 <= Len(r) /\ r[p + 1] = "0" /\ r[p + 2] = "x"
                  /\ p = 1 \/ (p > 2 /\ r[p - 1] = " " /\ r[p - 2] = ",")
            /\ \A b \in 0..((Len(fmt_arg) \div 2) - 1) :
                  b % 16 = 0 => Cardinality({p \in LineBreaks : ByteAt(p) = b}) = 1

\* C8 witness: a digest of 33 bytes has been formatted, with line breaks before
\* bytes 0, 16 and 32.
C8_Witness ==
    /\ FormattedEven
    /\ Len(fmt_arg) = 66
    /\ {ByteAt(p) : p \in LineBreaks} = {0, 16, 32}

====
